---- MODULE Spec2Model ----
(***************************************************************************)
(* Model of kafka::kafka_server and kafka_server::connection               *)
(* (src/unnamed/part_000): the accept loop, the per-connection request     *)
(* pipeline (size prefix, admission, header, quota throttling, payload,    *)
(* dispatch), the response ordering chain _ready_to_respond, and stop().   *)
(*                                                                         *)
(* One shard is modelled.  Every action is one continuation of the         *)
(* seastar future chain: the code between two suspension points.           *)
(***************************************************************************)
EXTENDS Integers, Sequences, FiniteSets, Bags, TLC

\* ------------------------------------------------------------------ bounds
NumConns == 2           \* connections of the many-clients workload
MaxFrames == 3          \* requests of the one-client pipelining workload
MaxAcceptFails == 1     \* failed accepts before shutdown
MaxDelay == 1           \* largest throttle duration the quota manager returns
NumGroups == 2          \* raft group ids
NumHandles == 2         \* distinct consensus objects per group id
NumPeers == 2           \* remote nodes
MaxTicks == 2           \* heartbeat ticks
MaxRequestSize == 16100 \* config.max_request_size of this server

\* ------------------------------------------------- constants of the program
MemFactor == 2
MemOverhead == 8000
RawHeaderSize == 10
CorrSize == 4
SizeTMod == 1073741824

Conns == 1..NumConns
GroupIds == 1..NumGroups
Handles == 1..NumHandles
Self == 0
Peers == 1..NumPeers
Nodes == {Self} \cup Peers
Slots == 1..MaxFrames

\* what the clients do: many clients with one request each, or one client
\* pipelining several requests
Workloads == {[conns |-> NumConns, frames |-> 1],
              [conns |-> 1, frames |-> MaxFrames]}

\* mem_estimate = size * 2 + 8000
EstNoFactor(size) == size + MemOverhead
Est(size) == size * MemFactor + MemOverhead

\* mem_estimate >= _server._max_request_size
TooLargeOff(size) == Est(size) > MaxRequestSize
TooLarge(size) == Est(size) >= MaxRequestSize

\* sizes a client may put in the prefix: negative, a small frame, the
\* largest admitted one, the smallest oversize one, and max / 2
SmallSize == 12
MaxAdmit == (MaxRequestSize - MemOverhead - 1) \div MemFactor
HalfMax == MaxRequestSize \div 2
Sizes == {-1, 0, SmallSize, MaxAdmit, MaxAdmit + 1, HalfMax}

ClientIdLens == {-1, 0, 1}

\* client_id_buffer.size() for a client_id_size field
ClientIdBytes(cidsize) == IF cidsize > 0 THEN cidsize ELSE 0

\* the correlation id the client gives its k-th request on connection c
CorrOf(c, k) == 10 * c + k

\* response buffers the dispatcher may return: sequences of chunks of bytes
Payloads == {<<>>, <<<<1, 2>>, <<3>>>>}

\* ss::cpu_to_be on a 32-bit value: the four bytes, most significant first
BE32(n) == <<(n \div 16777216) % 256, (n \div 65536) % 256,
             (n \div 256) % 256, n % 256>>

\* the 32-bit value a client decodes from four big-endian bytes
FromBE32(b) == ((b[1] * 256 + b[2]) * 256 + b[3]) * 256 + b[4]

\* iobuf::size_bytes and the bytes of the chunks in order
RECURSIVE Flatten(_)
Flatten(chunks) ==
    IF chunks = <<>> THEN <<>> ELSE Head(chunks) \o Flatten(Tail(chunks))

\* write_response: size = sizeof(correlation_type) + buf().size_bytes()
ResponseSizeNoCorr(resp) == Len(Flatten(resp))
ResponseSize(resp) == CorrSize + Len(Flatten(resp))

\* write_response: the raw_response_header put in front of the chunks
ResponseHeader(resp, corr) == BE32(ResponseSize(resp)) \o BE32(corr)

VARIABLES
    workload,          \* what the clients do (never changes)
    abort_requested,   \* _as.abort_requested()
    memory_available,  \* _memory_available: units the semaphore has left
    waiters,           \* FIFO wait list of _memory_available (connections)
    listener,          \* "idle" | "accept" | "done" | "noloop"
    accept_failures,   \* failed accepts logged so far
    gate_count,        \* tasks inside _listeners_and_connections
    gate_closed,       \* _listeners_and_connections.close() was called
    stop_resolved,     \* the future returned by stop() has resolved
    connections,       \* _connections
    pc,                \* position of each connection's process() task
    cur,               \* the request the connection is reading
    eof,               \* _read_buf.eof()
    shut,              \* shutdown() was called on the connection's socket
    out_closed,        \* _write_buf.close() was called
    reqs,              \* requests passed to do_process, in that order
    wire,              \* what has been written to the connection
    probe,             \* counters of _server._probe
    consensus_groups,  \* heartbeat_manager::_consensus_groups (sorted vector)
    hb_state,          \* "init" | "running" | "stopping" | "stopped"
    heartbeat_timer,   \* _heartbeat_timer is armed
    bghbeats,          \* dispatch tasks inside the gate _bghbeats
    hb_tick,           \* ticks dispatched so far
    outstanding,       \* per peer: the permit is available
    inflight,          \* heartbeat RPCs sent and not yet answered
    hb_sent,           \* every heartbeat RPC dispatched so far
    hb_calls           \* bag of the process_heartbeat invocations on groups

kvars == <<workload, abort_requested, memory_available, waiters, listener,
           accept_failures, gate_count, gate_closed, stop_resolved,
           connections, pc, cur, eof, shut, out_closed, reqs, wire, probe>>

hvars == <<consensus_groups, hb_state, heartbeat_timer, bghbeats, hb_tick,
           outstanding, inflight, hb_sent, hb_calls>>

vars == <<kvars, hvars>>

NoReq == [size |-> 0, est |-> 0, corr |-> 0, cid |-> 0, fv |-> FALSE,
          dur |-> 0, slept |-> -1]

\* positions at which the request being read owns semaphore_units
HoldingPcs == {"read_header", "sleep", "read_payload"}

Init ==
    /\ workload \in Workloads
    /\ abort_requested = FALSE
    /\ memory_available = MaxRequestSize
    /\ waiters = <<>>
    /\ listener = "idle"
    /\ accept_failures = 0
    /\ gate_count = 0
    /\ gate_closed = FALSE
    /\ stop_resolved = FALSE
    /\ connections = {}
    /\ pc = [c \in Conns |-> "none"]
    /\ cur = [c \in Conns |-> NoReq]
    /\ eof = [c \in Conns |-> FALSE]
    /\ shut = [c \in Conns |-> FALSE]
    /\ out_closed = [c \in Conns |-> FALSE]
    /\ reqs = [c \in Conns |-> <<>>]
    /\ wire = [c \in Conns |-> <<>>]
    /\ probe = [served |-> 0, errors |-> 0]
    /\ consensus_groups = <<>>
    /\ hb_state = "init"
    /\ heartbeat_timer = FALSE
    /\ bghbeats = 0
    /\ hb_tick = 0
    /\ outstanding = [p \in Peers |-> TRUE]
    /\ inflight = {}
    /\ hb_sent = {}
    /\ hb_calls = EmptyBag

\* ------------------------------------------------------- the semaphore
\* semaphore::signal: hand units to the waiters at the head of the list
\* for as long as the head fits
RECURSIVE Wake(_, _)
Wake(avail, q) ==
    IF q = <<>> \/ cur[Head(q)].est > avail
    THEN [avail |-> avail, q |-> q, woken |-> {}]
    ELSE LET r == Wake(avail - cur[Head(q)].est, Tail(q))
         IN  [r EXCEPT !.woken = @ \cup {Head(q)}]

\* semaphore::wait: immediate only if the units are there and nobody waits
MayProceedNoCheck(n) == waiters = <<>>
MayProceed(n) == memory_available >= n /\ waiters = <<>>

\* a woken waiter continues with read_header
PcAfter(woken, base) ==
    [d \in Conns |-> IF d \in woken THEN "read_header" ELSE base[d]]

\* semaphore_units destroyed: give n units back and wake whoever now fits;
\* base is the pc function the releasing continuation leaves behind
ReleaseLeak(n, base) ==
    /\ memory_available' = memory_available
    /\ waiters' = waiters
    /\ pc' = base

Release(n, base) ==
    LET r == Wake(memory_available + n, waiters)
    IN  /\ memory_available' = r.avail
        /\ waiters' = r.q
        /\ pc' = PcAfter(r.woken, base)

\* ------------------------------------------------- the response chain
\* do_process, catch branch: the new barrier is the old one
AfterFailureStuck(prev) == "unresolved"
AfterFailure(prev) == prev

\* state of _ready_to_respond as it was after the i-th do_process:
\* "ok" resolved, "err" resolved with an exception, "unresolved"
RECURSIVE ChainState(_, _)
ChainState(c, i) ==
    IF i = 0 THEN "ok"
    ELSE LET r == reqs[c][i]
             prev == ChainState(c, i - 1)
         IN  CASE r.disp = "pending" -> "unresolved"
               [] r.disp = "failed" -> AfterFailure(prev)
               [] OTHER ->
                    IF prev # "ok" THEN prev
                    ELSE CASE r.w = "done" -> "ok"
                           [] r.w = "err" -> "err"
                           [] OTHER -> "unresolved"

\* the barrier the response of request i waits for
ReadyNoWait(c, i) == "ok"
Ready(c, i) == ChainState(c, i - 1)

\* ------------------------------------------------------- kafka_server
\* kafka_server::listen: the accept loop is started inside the gate; with
\* the gate already closed with_gate fails and no loop runs
Listen ==
    /\ listener = "idle"
    /\ IF gate_closed
       THEN /\ listener' = "noloop"
            /\ UNCHANGED gate_count
       ELSE /\ listener' = "accept"
            /\ gate_count' = gate_count + 1
    /\ UNCHANGED <<hvars, workload, abort_requested, memory_available, waiters,
                   accept_failures, gate_closed, stop_resolved, connections,
                   pc, cur, eof, shut, out_closed, reqs, wire, probe>>

\* do_accepts: _as.abort_requested() as the then_wrapped continuation of
\* accept() sees it
AbortSeenNever == FALSE
AbortSeen == abort_requested

\* do_accepts, accept succeeded and no abort was requested: the connection
\* is constructed, enters the gate, and process() issues its first read
AcceptOk ==
    /\ listener = "accept"
    /\ ~AbortSeen
    /\ \E c \in 1..workload.conns :
        /\ pc[c] = "none"
        /\ \A d \in Conns : d < c => pc[d] # "none"
        /\ connections' = connections \cup {c}
        /\ gate_count' = gate_count + 1
        /\ pc' = [pc EXCEPT ![c] = "read_size"]
    /\ UNCHANGED <<hvars, workload, abort_requested, memory_available, waiters,
                   listener, accept_failures, gate_closed, stop_resolved,
                   cur, eof, shut, out_closed, reqs, wire, probe>>

\* do_accepts, accept failed and no abort was requested: handle_exception
\* logs and the loop goes on
AcceptFail ==
    /\ listener = "accept"
    /\ ~AbortSeen
    /\ accept_failures < MaxAcceptFails
    /\ accept_failures' = accept_failures + 1
    /\ UNCHANGED <<hvars, workload, abort_requested, memory_available, waiters,
                   listener, gate_count, gate_closed, stop_resolved,
                   connections, pc, cur, eof, shut, out_closed, reqs, wire,
                   probe>>

\* do_accepts, the accept future completed after abort was requested: the
\* loop stops and the task leaves the gate
AcceptAbort ==
    /\ listener = "accept"
    /\ AbortSeen
    /\ listener' = "done"
    /\ gate_count' = gate_count - 1
    /\ UNCHANGED <<hvars, workload, abort_requested, memory_available, waiters,
                   accept_failures, gate_closed, stop_resolved, connections,
                   pc, cur, eof, shut, out_closed, reqs, wire, probe>>

\* kafka_server::stop: abort the listeners, request abort, shut down every
\* connection of _connections, close the gate
Stop ==
    /\ ~gate_closed
    /\ abort_requested' = TRUE
    /\ shut' = [c \in Conns |-> shut[c] \/ c \in connections]
    /\ gate_closed' = TRUE
    /\ UNCHANGED <<hvars, workload, memory_available, waiters, listener,
                   accept_failures, gate_count, stop_resolved, connections,
                   pc, cur, eof, out_closed, reqs, wire, probe>>

\* gate::close: the returned future resolves when the gate is empty
GateEmptyNoCheck == TRUE
GateEmpty == gate_count = 0

StopResolve ==
    /\ gate_closed
    /\ ~stop_resolved
    /\ GateEmpty
    /\ stop_resolved' = TRUE
    /\ UNCHANGED <<hvars, workload, abort_requested, memory_available, waiters,
                   listener, accept_failures, gate_count, gate_closed,
                   connections, pc, cur, eof, shut, out_closed, reqs, wire,
                   probe>>

\* ------------------------------------------------ kafka_server::connection
\* the do_until condition of process()
LoopExitEofOnly(c) == eof[c]
LoopExit(c) == eof[c] \/ abort_requested

\* process(): one process_request finished normally, the condition is
\* evaluated and the next process_request issues its read
LoopCheck(c) ==
    /\ pc[c] = "loop"
    /\ pc' = [pc EXCEPT ![c] = IF LoopExit(c) THEN "closing"
                                ELSE "read_size"]
    /\ UNCHANGED <<hvars, workload, abort_requested, memory_available, waiters,
                   listener, accept_failures, gate_count, gate_closed,
                   stop_resolved, connections, cur, eof, shut, out_closed,
                   reqs, wire, probe>>

\* process(): process_request failed; handle_exception logs the error, then
\* the condition is evaluated as after any other iteration
HandleException(c) ==
    /\ pc[c] = "failed"
    /\ cur' = [cur EXCEPT ![c] = NoReq]
    /\ pc' = [pc EXCEPT ![c] = IF LoopExit(c) THEN "closing"
                                ELSE "read_size"]
    /\ UNCHANGED <<hvars, workload, abort_requested, memory_available, waiters,
                   listener, accept_failures, gate_count, gate_closed,
                   stop_resolved, connections, eof, shut, out_closed, reqs,
                   wire, probe>>

\* process_size: 0 when the stream hit EOF inside the prefix, else the
\* decoded value
ProcessSize(ateof, raw) == IF ateof THEN 0 ELSE raw

\* process_size throws on a negative size
InvalidSize(ateof, raw) == ~ateof /\ raw < 0

\* process_request from the size prefix to get_units
Admit(c, ateof, raw) ==
    LET size == ProcessSize(ateof, raw)
        est == Est(size)
    IN  /\ eof' = [eof EXCEPT ![c] = @ \/ ateof]
        /\ IF InvalidSize(ateof, raw)
           THEN /\ cur' = [cur EXCEPT ![c] = [NoReq EXCEPT !.size = raw]]
                /\ pc' = [pc EXCEPT ![c] = "failed"]
                /\ UNCHANGED <<memory_available, waiters>>
           ELSE /\ cur' = [cur EXCEPT ![c] =
                              [NoReq EXCEPT !.size = size, !.est = est]]
                /\ IF TooLarge(size)
                   THEN /\ pc' = [pc EXCEPT ![c] = "failed"]
                        /\ UNCHANGED <<memory_available, waiters>>
                   ELSE IF MayProceed(est)
                   THEN /\ memory_available' = memory_available - est
                        /\ pc' = [pc EXCEPT ![c] = "read_header"]
                        /\ UNCHANGED waiters
                   ELSE /\ waiters' = Append(waiters, c)
                        /\ pc' = [pc EXCEPT ![c] = "acquire"]
                        /\ UNCHANGED memory_available

\* read_exactly(sizeof(size_type)) returned an empty buffer: EOF
ReadSizeEof(c) ==
    /\ pc[c] = "read_size"
    /\ eof' = [eof EXCEPT ![c] = TRUE]
    /\ pc' = [pc EXCEPT ![c] = "loop"]
    /\ UNCHANGED <<hvars, workload, abort_requested, memory_available, waiters,
                   listener, accept_failures, gate_count, gate_closed,
                   stop_resolved, connections, cur, shut, out_closed, reqs,
                   wire, probe>>

\* read_exactly returned fewer than 4 bytes because the stream ended
ReadSizeShort(c) ==
    /\ pc[c] = "read_size"
    /\ Len(reqs[c]) < workload.frames
    /\ Admit(c, TRUE, 0)
    /\ UNCHANGED <<hvars, workload, abort_requested, listener, accept_failures,
                   gate_count, gate_closed, stop_resolved, connections,
                   shut, out_closed, reqs, wire, probe>>

\* read_exactly returned the 4 bytes of a size prefix
ReadSizeFrame(c, raw) ==
    /\ pc[c] = "read_size"
    /\ ~shut[c]
    /\ Len(reqs[c]) < workload.frames
    /\ Admit(c, FALSE, raw)
    /\ UNCHANGED <<hvars, workload, abort_requested, listener, accept_failures,
                   gate_count, gate_closed, stop_resolved, connections,
                   shut, out_closed, reqs, wire, probe>>

\* read_header threw "Unexpected EOF" (header or client id): the units die
\* with the continuation
ReadHeaderEof(c) ==
    /\ pc[c] = "read_header"
    /\ eof' = [eof EXCEPT ![c] = TRUE]
    /\ cur' = [cur EXCEPT ![c] = NoReq]
    /\ Release(cur[c].est, [pc EXCEPT ![c] = "failed"])
    /\ UNCHANGED <<hvars, workload, abort_requested, listener, accept_failures,
                   gate_count, gate_closed, stop_resolved, connections,
                   shut, out_closed, reqs, wire, probe>>

\* read_header: validate_utf8 threw on the client id
ReadHeaderBadUtf8(c) ==
    /\ pc[c] = "read_header"
    /\ ~eof[c]
    /\ cur' = [cur EXCEPT ![c] = NoReq]
    /\ Release(cur[c].est, [pc EXCEPT ![c] = "failed"])
    /\ UNCHANGED <<hvars, workload, abort_requested, listener, accept_failures,
                   gate_count, gate_closed, stop_resolved, connections, eof,
                   shut, out_closed, reqs, wire, probe>>

\* the throttling delay applied for a quota result
ThrottleAlways(fv, dur) == [sleep |-> TRUE, for |-> dur]
Throttle(fv, dur) == [sleep |-> ~fv, for |-> IF fv THEN -1 ELSE dur]

\* read_header returned a header (the stream had not ended);
\* record_tp_and_throttle gave (fv, dur)
ReadHeaderOk(c, cidlen, fv, dur) ==
    /\ pc[c] = "read_header"
    /\ ~eof[c]
    /\ cur' = [cur EXCEPT ![c] =
                  [@ EXCEPT !.corr = CorrOf(c, Len(reqs[c]) + 1),
                            !.cid = cidlen, !.fv = fv, !.dur = dur,
                            !.slept = Throttle(fv, dur).for]]
    /\ pc' = [pc EXCEPT ![c] = IF Throttle(fv, dur).sleep
                                THEN "sleep" ELSE "read_payload"]
    /\ UNCHANGED <<hvars, workload, abort_requested, memory_available, waiters,
                   listener, accept_failures, gate_count, gate_closed,
                   stop_resolved, connections, eof, shut, out_closed, reqs,
                   wire, probe>>

\* ss::sleep(delay.duration) elapsed
Sleep(c) ==
    /\ pc[c] = "sleep"
    /\ pc' = [pc EXCEPT ![c] = "read_payload"]
    /\ UNCHANGED <<hvars, workload, abort_requested, memory_available, waiters,
                   listener, accept_failures, gate_count, gate_closed,
                   stop_resolved, connections, cur, eof, shut, out_closed,
                   reqs, wire, probe>>

\* remaining = size - sizeof(raw_request_header) - client_id_buffer.size(),
\* computed in size_t (the model's size_t is SizeTMod wide)
Remaining(size, cidlen) ==
    (size - RawHeaderSize - ClientIdBytes(cidlen)) % SizeTMod

\* a byte count a client can actually deliver
Deliverable(n) == n < SizeTMod \div 2

\* read_iobuf_exactly returned (with all the bytes, or with fewer at EOF);
\* the request context is built and handed to do_process, which links the
\* request into _ready_to_respond
ReadPayload(c, complete) ==
    LET want == Remaining(cur[c].size, cur[c].cid)
    IN  /\ pc[c] = "read_payload"
        /\ complete => Deliverable(want)
        /\ ~complete => want > 0
        /\ eof' = [eof EXCEPT ![c] = @ \/ ~complete]
        /\ reqs' = [reqs EXCEPT ![c] = Append(@,
                      [corr |-> cur[c].corr, units |-> cur[c].est,
                       throttle |-> cur[c].dur, disp |-> "pending",
                       resp |-> <<>>, w |-> "none"])]
        /\ cur' = [cur EXCEPT ![c] = NoReq]
        /\ pc' = [pc EXCEPT ![c] = "loop"]
        /\ UNCHANGED <<hvars, workload, abort_requested, memory_available, waiters,
                       listener, accept_failures, gate_count, gate_closed,
                       stop_resolved, connections, shut, out_closed, wire,
                       probe>>

\* do_process, the then_wrapped continuation: the dispatch future of
\* request i completed.  The continuation object, with the units and the
\* context it captured, is destroyed as soon as it has run.  resp is the
\* response buffer a successful dispatch returned.
DispatchDone(c, i, ok, resp) ==
    /\ i \in 1..Len(reqs[c])
    /\ reqs[c][i].disp = "pending"
    /\ ~ok => resp = <<>>
    /\ reqs' = [reqs EXCEPT ![c][i] =
                   [@ EXCEPT !.disp = IF ok THEN "ok" ELSE "failed",
                             !.units = 0, !.throttle = 0, !.resp = resp]]
    /\ probe' = [probe EXCEPT !.errors = IF ok THEN @ ELSE @ + 1]
    /\ Release(reqs[c][i].units, pc)
    /\ UNCHANGED <<hvars, workload, abort_requested, listener, accept_failures,
                   gate_count, gate_closed, stop_resolved, connections, cur,
                   eof, shut, out_closed, wire>>

\* ready.then(write_response): _write_buf.write starts putting the
\* response of request i on the connection
WriteStart(c, i) ==
    /\ i \in 1..Len(reqs[c])
    /\ reqs[c][i].disp = "ok"
    /\ reqs[c][i].w = "none"
    /\ Ready(c, i) = "ok"
    /\ IF shut[c]
       THEN /\ reqs' = [reqs EXCEPT ![c][i].w = "err"]
            /\ UNCHANGED wire
       ELSE /\ reqs' = [reqs EXCEPT ![c][i].w = "hdr"]
            /\ wire' = [wire EXCEPT ![c] = Append(@,
                          [req |-> i, corr |-> reqs[c][i].corr,
                           part |-> "begin",
                           bytes |-> ResponseHeader(reqs[c][i].resp,
                                                    reqs[c][i].corr)])]
    /\ UNCHANGED <<hvars, workload, abort_requested, memory_available, waiters,
                   listener, accept_failures, gate_count, gate_closed,
                   stop_resolved, connections, pc, cur, eof, shut,
                   out_closed, probe>>

\* write_response: the rest of the message went out and flush() finished,
\* then request_served()
WriteEnd(c, i) ==
    /\ i \in 1..Len(reqs[c])
    /\ reqs[c][i].w = "hdr"
    /\ IF shut[c]
       THEN /\ reqs' = [reqs EXCEPT ![c][i].w = "err"]
            /\ UNCHANGED <<wire, probe>>
       ELSE /\ reqs' = [reqs EXCEPT ![c][i].w = "done"]
            /\ wire' = [wire EXCEPT ![c] = Append(@,
                          [req |-> i, corr |-> reqs[c][i].corr,
                           part |-> "end",
                           bytes |-> Flatten(reqs[c][i].resp)])]
            /\ probe' = [probe EXCEPT !.served = @ + 1]
    /\ UNCHANGED <<hvars, workload, abort_requested, memory_available, waiters,
                   listener, accept_failures, gate_count, gate_closed,
                   stop_resolved, connections, pc, cur, eof, shut,
                   out_closed>>

\* process(), after the loop: _ready_to_respond resolved; on success the
\* write half is closed, on an exception close() is skipped; the task
\* leaves the gate and the connection is destroyed
Close(c) ==
    /\ pc[c] = "closing"
    /\ ChainState(c, Len(reqs[c])) # "unresolved"
    /\ out_closed' = [out_closed EXCEPT ![c] =
                         ChainState(c, Len(reqs[c])) = "ok"]
    /\ pc' = [pc EXCEPT ![c] = "done"]
    /\ gate_count' = gate_count - 1
    /\ connections' = connections \ {c}
    /\ UNCHANGED <<hvars, workload, abort_requested, memory_available, waiters,
                   listener, accept_failures, gate_closed, stop_resolved,
                   cur, eof, shut, reqs, wire, probe>>

Next ==
    \/ Listen
    \/ AcceptOk
    \/ AcceptFail
    \/ AcceptAbort
    \/ Stop
    \/ StopResolve
    \/ \E c \in Conns : LoopCheck(c)
    \/ \E c \in Conns : HandleException(c)
    \/ \E c \in Conns : ReadSizeEof(c)
    \/ \E c \in Conns : ReadSizeShort(c)
    \/ \E c \in Conns, raw \in Sizes : ReadSizeFrame(c, raw)
    \/ \E c \in Conns : ReadHeaderEof(c)
    \/ \E c \in Conns : ReadHeaderBadUtf8(c)
    \/ \E c \in Conns, cs \in ClientIdLens, fv \in BOOLEAN,
          dur \in 0..MaxDelay :
            ReadHeaderOk(c, ClientIdBytes(cs), fv, dur)
    \/ \E c \in Conns : Sleep(c)
    \/ \E c \in Conns, complete \in BOOLEAN : ReadPayload(c, complete)
    \/ \E c \in Conns, i \in Slots, ok \in BOOLEAN, resp \in Payloads :
            DispatchDone(c, i, ok, resp)
    \/ \E c \in Conns, i \in Slots : WriteStart(c, i)
    \/ \E c \in Conns, i \in Slots : WriteEnd(c, i)
    \/ \E c \in Conns : Close(c)

Spec == Init /\ [][Next]_vars

\* what the code's scheduling guarantees: a ready continuation runs, a
\* sleep elapses, a read on a shut-down socket returns, and (the assumption
\* of the shutdown claim) every dispatch completes
FairSpec ==
    /\ Spec
    /\ WF_vars(AcceptAbort)
    /\ WF_vars(StopResolve)
    /\ \A c \in Conns :
        /\ WF_vars(LoopCheck(c))
        /\ WF_vars(HandleException(c))
        /\ WF_vars(shut[c] /\ ReadSizeEof(c))
        /\ WF_vars(shut[c] /\ (ReadHeaderEof(c)
                \/ \E cs \in ClientIdLens, fv \in BOOLEAN, dur \in 0..MaxDelay :
                       ReadHeaderOk(c, ClientIdBytes(cs), fv, dur)))
        /\ WF_vars(Sleep(c))
        /\ WF_vars(shut[c] /\ \E complete \in BOOLEAN : ReadPayload(c, complete))
        /\ WF_vars(Close(c))
        /\ \A i \in Slots :
            /\ WF_vars(\E ok \in BOOLEAN, resp \in Payloads :
                           DispatchDone(c, i, ok, resp))
            /\ WF_vars(WriteStart(c, i))
            /\ WF_vars(WriteEnd(c, i))

\* ------------------------------------------------------------ properties
RECURSIVE SumUnits(_)
\* ------------------------------------------------------ heartbeat manager
\* the members of a raft group: this node and the first peers; group 1 is
\* replicated on every peer
PeersOf(g) == {Self} \cup {p \in Peers : p + g <= NumPeers + 1}

\* a consensus object registered with the manager
Consensus == [group : GroupIds, handle : Handles]

\* consensus_ptr_by_group_id::operator()(ptr, ptr)
consensus_ptr_by_group_id(l, r) == l.group < r.group

\* consensus_ptr_by_group_id::operator()(ptr, group_id)
consensus_ptr_by_value(ptr, value) == ptr.group < value

\* std::lower_bound over the sorted vector of the flat_set: the first
\* position whose element is not less than x
LowerBound(s, x) ==
    1 + Cardinality({i \in 1..Len(s) : consensus_ptr_by_group_id(s[i], x)})

\* the same search for a group id
LowerBoundId(s, id) ==
    1 + Cardinality({i \in 1..Len(s) : consensus_ptr_by_value(s[i], id)})

InsertAt(s, i, x) == SubSeq(s, 1, i - 1) \o <<x>> \o SubSeq(s, i, Len(s))

\* flat_set::insert keeps one element per equivalence class of the
\* comparator
FlatSetInsertMulti(s, x) ==
    InsertAt(s, LowerBound(s, x), x)

FlatSetInsert(s, x) ==
    LET i == LowerBound(s, x)
    IN  IF i <= Len(s) /\ ~consensus_ptr_by_group_id(x, s[i])
        THEN s
        ELSE InsertAt(s, i, x)

\* position of the group with this id in the set, 0 when there is none
FindAny(s, id) ==
    LET i == LowerBoundId(s, id)
    IN  IF i <= Len(s) THEN i ELSE 0

Find(s, id) ==
    LET i == LowerBoundId(s, id)
    IN  IF i <= Len(s) /\ s[i].group = id THEN i ELSE 0

RemoveAt(s, i) == SubSeq(s, 1, i - 1) \o SubSeq(s, i + 1, Len(s))

GroupIdsOf(s) == [i \in 1..Len(s) |-> s[i].group]

\* the group ids of one node's batch: an entry per registered group that
\* has the node as a member, in the order of the set
RequestForAll(p) == GroupIdsOf(consensus_groups)
RequestFor(p) ==
    SelectSeq(GroupIdsOf(consensus_groups), LAMBDA g : p \in PeersOf(g))

\* the nodes a tick has a batch for
Targets == {p \in Peers : RequestFor(p) # <<>>}

\* the invocations process_reply makes for one answered batch
RECURSIVE Notify(_, _, _)
Notify(r, gs, res) ==
    IF gs = <<>> THEN EmptyBag
    ELSE (IF Find(consensus_groups, Head(gs)) # 0
          THEN SetToBag({[tick |-> r.tick, node |-> r.target,
                           group |-> Head(gs), res |-> res]})
          ELSE EmptyBag)
         (+) Notify(r, Tail(gs), res)

process_reply_first(r, res) == Notify(r, SubSeq(r.groups, 1, 1), res)
process_reply(r, res) == Notify(r, r.groups, res)

KUnchanged == UNCHANGED kvars

\* register_group
RegisterGroup(g, h) ==
    /\ hb_state # "stopped"
    /\ consensus_groups' =
         FlatSetInsert(consensus_groups, [group |-> g, handle |-> h])
    /\ UNCHANGED <<hb_state, heartbeat_timer, bghbeats, hb_tick, outstanding,
                   inflight, hb_sent, hb_calls>>
    /\ KUnchanged

\* deregister_group
DeregisterGroup(g) ==
    /\ hb_state # "stopped"
    /\ consensus_groups' =
         (IF Find(consensus_groups, g) # 0
          THEN RemoveAt(consensus_groups, Find(consensus_groups, g))
          ELSE consensus_groups)
    /\ UNCHANGED <<hb_state, heartbeat_timer, bghbeats, hb_tick, outstanding,
                   inflight, hb_sent, hb_calls>>
    /\ KUnchanged

\* start(): arm the timer
HbStart ==
    /\ hb_state = "init"
    /\ hb_state' = "running"
    /\ heartbeat_timer' = TRUE
    /\ UNCHANGED <<consensus_groups, bghbeats, hb_tick, outstanding,
                   inflight, hb_sent, hb_calls>>
    /\ KUnchanged

\* the timer fires: dispatch_heartbeats enters the gate, builds one batch
\* per node from the set as it is now and sends the batches whose permit
\* is free
DispatchHeartbeats ==
    /\ heartbeat_timer
    /\ hb_state = "running"
    /\ hb_tick < MaxTicks
    /\ heartbeat_timer' = FALSE
    /\ bghbeats' = bghbeats + 1
    /\ hb_tick' = hb_tick + 1
    /\ LET to == {p \in Targets : outstanding[p]}
           batch == {[tick |-> hb_tick + 1, target |-> p,
                      groups |-> RequestFor(p)] : p \in to}
       IN  /\ inflight' = inflight \cup batch
           /\ hb_sent' = hb_sent \cup batch
           /\ outstanding' = [p \in Peers |-> outstanding[p] /\ p \notin to]
    /\ UNCHANGED <<consensus_groups, hb_state, hb_calls>>
    /\ KUnchanged

\* the timer fires with the gate closed: nothing is dispatched
DispatchClosed ==
    /\ heartbeat_timer
    /\ hb_state # "running"
    /\ heartbeat_timer' = FALSE
    /\ UNCHANGED <<consensus_groups, hb_state, bghbeats, hb_tick,
                   outstanding, inflight, hb_sent, hb_calls>>
    /\ KUnchanged

\* do_heartbeat: the RPC to one node ends with a reply, a transport
\* failure or its deadline
HeartbeatDone(r, outcome) ==
    /\ r \in inflight
    /\ inflight' = inflight \ {r}
    /\ hb_calls' = hb_calls
         (+) process_reply(r, IF outcome = "reply" THEN "ok" ELSE "err")
    /\ UNCHANGED <<consensus_groups, hb_state, heartbeat_timer, bghbeats,
                   hb_tick, outstanding, hb_sent>>
    /\ KUnchanged

\* whether the end of a tick arms the timer again
RearmNonEmpty == \E r \in hb_sent : r.tick = hb_tick
Rearm == TRUE

\* every batch of the tick has ended: the permits go back, the timer is
\* armed again and the task leaves the gate
DispatchDoneHb ==
    /\ bghbeats > 0
    /\ inflight = {}
    /\ outstanding' = [p \in Peers |-> TRUE]
    /\ heartbeat_timer' = Rearm
    /\ bghbeats' = bghbeats - 1
    /\ UNCHANGED <<consensus_groups, hb_state, hb_tick, inflight, hb_sent,
                   hb_calls>>
    /\ KUnchanged

\* stop(): cancel the timer and close the gate
HbStop ==
    /\ hb_state = "running"
    /\ hb_state' = "stopping"
    /\ heartbeat_timer' = FALSE
    /\ UNCHANGED <<consensus_groups, bghbeats, hb_tick, outstanding,
                   inflight, hb_sent, hb_calls>>
    /\ KUnchanged

\* the future of _bghbeats.close() resolves
HbStopResolve ==
    /\ hb_state = "stopping"
    /\ bghbeats = 0
    /\ hb_state' = "stopped"
    /\ UNCHANGED <<consensus_groups, heartbeat_timer, bghbeats, hb_tick,
                   outstanding, inflight, hb_sent, hb_calls>>
    /\ KUnchanged

HbNext ==
    \/ \E g \in GroupIds, h \in Handles : RegisterGroup(g, h)
    \/ \E g \in GroupIds : DeregisterGroup(g)
    \/ HbStart
    \/ DispatchHeartbeats
    \/ DispatchClosed
    \/ \E r \in inflight, o \in {"reply", "failure", "timeout"} :
          HeartbeatDone(r, o)
    \/ DispatchDoneHb
    \/ HbStop
    \/ HbStopResolve

HbInit == Init /\ workload = [conns |-> NumConns, frames |-> 1]

HbSpec == HbInit /\ [][HbNext]_vars

\* the timer, the transport and the continuations of the tick run
HbFairSpec ==
    /\ HbSpec
    /\ WF_vars(DispatchHeartbeats)
    /\ WF_vars(DispatchDoneHb)
    /\ WF_vars(\E r \in inflight : HeartbeatDone(r, "reply"))

SumUnits(rs) == IF rs = <<>> THEN 0 ELSE Head(rs).units + SumUnits(Tail(rs))

\* units owned by the requests of connection c: the one being read and the
\* ones being dispatched
HeldBy(c) ==
    (IF pc[c] \in HoldingPcs THEN cur[c].est ELSE 0) + SumUnits(reqs[c])

RECURSIVE SumHeld(_)
SumHeld(n) == IF n = 0 THEN 0 ELSE HeldBy(n) + SumHeld(n - 1)

HeldSum == SumHeld(NumConns)

InSeq(x, q) == \E k \in 1..Len(q) : q[k] = x

\* C1: on every connection the responses appear in the order in which the
\* requests were passed to do_process, and a response is complete before
\* the next one begins, whatever the order of dispatch completion
C1_ResponsesInAcceptanceOrder ==
    \A c \in Conns :
        /\ \A p \in 1..Len(wire[c]) :
            /\ wire[c][p].part = "begin" /\ p < Len(wire[c])
                => /\ wire[c][p + 1].part = "end"
                   /\ wire[c][p + 1].req = wire[c][p].req
            /\ wire[c][p].part = "end"
                => /\ p > 1
                   /\ wire[c][p - 1].part = "begin"
                   /\ wire[c][p - 1].req = wire[c][p].req
        /\ \A p, q \in 1..Len(wire[c]) :
            p < q => wire[c][p].req <= wire[c][q].req

\* request 3 finished dispatch before request 2 and waits, request 1 is
\* already on the wire
C1_Witness ==
    \E c \in Conns :
        /\ Len(reqs[c]) >= 3
        /\ reqs[c][1].w = "done"
        /\ reqs[c][2].disp = "pending"
        /\ reqs[c][3].disp = "ok"
        /\ reqs[c][3].w = "none"

C3_UnitsHeldUntilResponseWritten ==
    \A c \in Conns : \A i \in 1..Len(reqs[c]) :
        (reqs[c][i].disp = "ok" /\ reqs[c][i].w = "none"
            /\ Ready(c, i) = "unresolved")
        => reqs[c][i].units > 0

\* C4: after a failed process_request the connection reads no further
\* request: the loop ends
C4_FramingErrorEndsConnection ==
    [][\A c \in Conns :
          pc[c] = "failed" => pc'[c] \in {"failed", "closing"}]_vars

\* C5: a failed dispatch writes nothing and is counted, and the barrier
\* passes it: a later response is written once every earlier request has
\* either failed or been written
NumFailed ==
    Cardinality({x \in Conns \X Slots :
        x[2] <= Len(reqs[x[1]]) /\ reqs[x[1]][x[2]].disp = "failed"})

C5_FailedDispatchIsSkipped ==
    /\ probe.errors = NumFailed
    /\ \A c \in Conns :
        /\ \A p \in 1..Len(wire[c]) : reqs[c][wire[c][p].req].disp = "ok"
        /\ \A i \in 1..Len(reqs[c]) :
            /\ reqs[c][i].disp = "failed" => reqs[c][i].w = "none"
            /\ (reqs[c][i].disp = "ok" /\ reqs[c][i].w = "none"
                /\ \A j \in 1..(i - 1) :
                      \/ reqs[c][j].disp = "failed"
                      \/ reqs[c][j].w = "done")
               => ENABLED WriteStart(c, i)
        /\ (pc[c] = "done" /\ ~shut[c])
            => \A i \in 1..Len(reqs[c]) :
                  reqs[c][i].disp = "ok" => reqs[c][i].w = "done"

\* the first dispatch failed, the second response is on the wire
C5_Witness ==
    \E c \in Conns :
        /\ Len(reqs[c]) >= 2
        /\ reqs[c][1].disp = "failed"
        /\ reqs[c][2].w = "done"
        /\ wire[c] # <<>>

\* C6: the future returned by stop() resolves only when the accept loop and
\* every connection task have left the gate, each connection's chain of
\* responses having resolved; and once stop() was called it does resolve,
\* every dispatch being assumed to complete
C6_Quiescent ==
    /\ listener # "accept"
    /\ connections = {}
    /\ \A c \in Conns :
        /\ pc[c] \in {"none", "done"}
        /\ ChainState(c, Len(reqs[c])) # "unresolved"
        /\ \A i \in 1..Len(reqs[c]) : reqs[c][i].w # "hdr"

C6_StopAwaitsAllTasks ==
    /\ [](stop_resolved => C6_Quiescent)
    /\ (gate_closed ~> stop_resolved)

\* stop() resolved after a connection was shut down with a response still
\* to be written
C6_Witness ==
    /\ stop_resolved
    /\ \E c \in Conns :
        /\ shut[c]
        /\ pc[c] = "done"
        /\ \E i \in 1..Len(reqs[c]) : reqs[c][i].w = "err"

\* C7: once stop() has run no request is left waiting for admission units
C7_ShutdownWakesWaiters ==
    gate_closed => waiters = <<>>

\* C8: a first violation goes on to the payload without sleeping; any other
\* quota result sleeps for the returned duration first; the request context
\* carries the duration in both cases
C8_SleepState ==
    \A c \in Conns :
        /\ pc[c] = "sleep" => ~cur[c].fv /\ cur[c].slept = cur[c].dur
        /\ pc[c] = "read_payload" =>
              cur[c].slept = (IF cur[c].fv THEN -1 ELSE cur[c].dur)

C8_SleepStep ==
    \A c \in Conns :
        /\ (pc'[c] = "read_payload" /\ pc[c] # "read_payload")
            => \/ pc[c] = "read_header" /\ cur'[c].fv
               \/ pc[c] = "sleep" /\ ~cur[c].fv /\ cur'[c] = cur[c]
        /\ (pc[c] = "read_payload" /\ pc'[c] # "read_payload")
            => /\ Len(reqs'[c]) = Len(reqs[c]) + 1
               /\ reqs'[c][Len(reqs'[c])].throttle = cur[c].dur
               /\ reqs'[c][Len(reqs'[c])].disp = "pending"

C8_FirstViolationDoesNotSleep ==
    /\ []C8_SleepState
    /\ [][C8_SleepStep]_vars

\* one connection passed a first violation without sleeping, another one
\* sleeps for a later violation
C8_Witness ==
    \E c, d \in Conns :
        /\ pc[c] = "read_payload" /\ cur[c].fv /\ cur[c].dur = MaxDelay
        /\ cur[c].slept = -1
        /\ pc[d] = "sleep" /\ cur[d].dur = MaxDelay

\* C9: a size whose estimate size*2+8000 reaches max_request_size fails the
\* request straight from the size prefix, with the semaphore untouched; a
\* size with a smaller estimate goes on to get_units
C9_Admitted ==
    \A c \in Conns :
        pc[c] \in {"acquire"} \cup HoldingPcs
            => /\ cur[c].size >= 0
               /\ cur[c].size * 2 + 8000 < MaxRequestSize

C9_SizeStep ==
    \A c \in Conns :
        (pc[c] = "read_size" /\ pc'[c] = "failed")
            => /\ \/ cur'[c].size < 0
                  \/ cur'[c].size * 2 + 8000 >= MaxRequestSize
               /\ memory_available' = memory_available
               /\ waiters' = waiters

C9_OversizeRejectedBeforeAdmission ==
    /\ []C9_Admitted
    /\ [][C9_SizeStep]_vars

\* the smallest oversize request was rejected on one connection while the
\* largest admissible one owns its units on another
C9_Witness ==
    \E c, d \in Conns :
        /\ pc[c] = "failed" /\ cur[c].size = MaxAdmit + 1
        /\ memory_available = MaxRequestSize - (MaxAdmit * 2 + 8000)
        /\ pc[d] = "read_header" /\ cur[d].size = MaxAdmit

\* C10 as claimed: a request of exactly max_request_size / 2 bytes is
\* admitted
C10_HalfMaxAdmitted ==
    \A c \in Conns : cur[c].size = HalfMax => pc[c] # "failed"

\* C10 as amended: a request of exactly max_request_size / 2 bytes is
\* rejected by the size check and never reaches get_units
C10_HalfMaxRejected ==
    \A c \in Conns :
        (cur[c].size = HalfMax /\ pc[c] # "read_size") => pc[c] = "failed"

C10_Witness ==
    \E c \in Conns :
        /\ pc[c] = "failed"
        /\ cur[c].size = HalfMax
        /\ memory_available = MaxRequestSize

\* C11: every response on the wire is the 4-byte big-endian size of its
\* payload plus 4, the 4-byte big-endian correlation id of the request it
\* answers, then the chunks of that request's response buffer in order
C11_ResponseFraming ==
    \A c \in Conns : \A p \in 1..Len(wire[c]) :
        LET t == wire[c][p]
            r == reqs[c][t.req]
        IN  /\ r.disp = "ok"
            /\ t.part = "begin" =>
                /\ Len(t.bytes) = 8
                /\ FromBE32(SubSeq(t.bytes, 1, 4)) = Len(Flatten(r.resp)) + 4
                /\ FromBE32(SubSeq(t.bytes, 5, 8)) = CorrOf(c, t.req)
                /\ \A q \in 1..Len(wire[c]) :
                      (wire[c][q].part = "begin" /\ q # p)
                        => SubSeq(wire[c][q].bytes, 5, 8) # SubSeq(t.bytes, 5, 8)
            /\ t.part = "end" =>
                /\ t.bytes = Flatten(r.resp)
                /\ p > 1
                /\ FromBE32(SubSeq(wire[c][p - 1].bytes, 1, 4))
                      = Len(t.bytes) + 4

\* two responses are on the wire, the second with a payload of two chunks
C11_Witness ==
    \E c \in Conns :
        /\ Len(wire[c]) >= 4
        /\ wire[c][4].part = "end"
        /\ wire[c][4].bytes = <<1, 2, 3>>
        /\ wire[c][3].bytes = <<0, 0, 0, 7, 0, 0, 0, CorrOf(c, wire[c][3].req)>>

\* C16: a failed accept leaves the accept loop running and able to accept
\* the next client; once abort is requested no connection is constructed
\* and no task enters the gate, and the loop ends
C16_LoopAlive ==
    /\ (accept_failures > 0 /\ ~abort_requested) => listener = "accept"
    /\ (listener = "accept" /\ ~abort_requested
          /\ \E c \in 1..workload.conns : pc[c] = "none")
        => ENABLED AcceptOk

C16_AcceptStep ==
    /\ accept_failures' # accept_failures
        => listener' = "accept" /\ ~abort_requested'
    /\ abort_requested
        => /\ connections' \subseteq connections
           /\ gate_count' <= gate_count
           /\ \A c \in Conns : pc[c] = "none" => pc'[c] = "none"

C16_AcceptLoopLifecycle ==
    /\ []C16_LoopAlive
    /\ [][C16_AcceptStep]_vars
    /\ (abort_requested ~> listener # "accept")

\* the loop survived a failed accept, accepted a connection, and ended at
\* shutdown with a client still unaccepted
C16_Witness ==
    /\ listener = "done"
    /\ accept_failures > 0
    /\ \E c, d \in 1..workload.conns : pc[c] # "none" /\ pc[d] = "none"

\* C17: when the task of a connection has finished, its write half was
\* closed
C17_WriteHalfClosedOnExit ==
    \A c \in Conns : pc[c] = "done" => out_closed[c]

\* C18: the units the semaphore has left plus the units owned by requests
\* are always max_request_size, and with no request being read or
\* dispatched everything is back
C18_Idle ==
    \A c \in Conns :
        /\ pc[c] \notin HoldingPcs \cup {"acquire"}
        /\ \A i \in 1..Len(reqs[c]) : reqs[c][i].disp # "pending"

C18_NoUnitsLeaked ==
    /\ memory_available + HeldSum = MaxRequestSize
    /\ memory_available >= 0
    /\ C18_Idle => memory_available = MaxRequestSize

\* requests ended on a dispatch failure, on a written response and on an
\* EOF after admission, and the semaphore is full again
C18_Witness ==
    /\ memory_available = MaxRequestSize
    /\ \E c \in Conns :
        /\ pc[c] = "done"
        /\ eof[c]
        /\ Len(reqs[c]) = 2
        /\ reqs[c][1].disp = "failed"
        /\ reqs[c][2].w = "done"

\* C19: once abort is requested no connection issues the read of a new
\* request, and requesting it moves no request that is in the pipeline
C19_FlagStep ==
    /\ abort_requested
        => \A c \in Conns : pc'[c] = "read_size" => pc[c] = "read_size"
    /\ (abort_requested' /\ ~abort_requested)
        => pc' = pc /\ cur' = cur /\ reqs' = reqs /\ eof' = eof

C19_Pipeline ==
    \A c \in Conns :
        /\ pc[c] = "sleep" => ENABLED Sleep(c)
        /\ pc[c] = "read_payload" => ENABLED ReadPayload(c, FALSE)
        /\ (pc[c] = "closing" /\ ~eof[c]) => abort_requested

C19_ShutdownObservedBetweenRequests ==
    /\ []C19_Pipeline
    /\ [][C19_FlagStep]_vars

\* one loop ended on the flag alone while another connection still reads
\* the payload of its request
C19_Witness ==
    /\ abort_requested
    /\ \E c, d \in Conns :
        /\ pc[c] = "closing" /\ ~eof[c]
        /\ pc[d] = "read_payload"

\* ------------------------------------------- claims on the heartbeat manager
RegisteredIn(s, g) == \E i \in 1..Len(s) : s[i].group = g
Registered(g) == RegisteredIn(consensus_groups, g)
Count(q, g) == Cardinality({i \in 1..Len(q) : q[i] = g})
ErrCall(r, g) == [tick |-> r.tick, node |-> r.target, group |-> g, res |-> "err"]
OkCall(r, g) == [tick |-> r.tick, node |-> r.target, group |-> g, res |-> "ok"]

\* C12: a tick sends at most one heartbeat RPC to a node, never to this
\* node, and the batch has exactly one entry for each registered group
\* that has the node as a member and no other entry
C12_OnePerPeer ==
    /\ \A r1, r2 \in hb_sent :
          (r1.tick = r2.tick /\ r1.target = r2.target) => r1 = r2
    /\ \A r \in hb_sent : r.target # Self /\ r.target \in Peers

C12_BatchStep ==
    \A r \in hb_sent' \ hb_sent :
        /\ r.tick = hb_tick + 1
        /\ \A g \in GroupIds :
              Count(r.groups, g) =
                 (IF Registered(g) /\ r.target \in PeersOf(g) THEN 1 ELSE 0)

C12_OneBatchPerPeerAndTick ==
    /\ []C12_OnePerPeer
    /\ [][C12_BatchStep]_vars

\* one tick sent the entries of both groups to peer 1 in one RPC and the
\* entry of group 1 alone to peer 2
C12_Witness ==
    \E t \in 1..MaxTicks :
        /\ [tick |-> t, target |-> 1, groups |-> <<1, 2>>] \in hb_sent
        /\ [tick |-> t, target |-> 2, groups |-> <<1>>] \in hb_sent

\* C13 as stated: an RPC that ends in a failure or at its deadline
\* notifies every group of its batch of the error exactly once
C13_ErrStepAll ==
    \A r \in inflight, o \in {"failure", "timeout"} :
        HeartbeatDone(r, o) =>
            \A i \in 1..Len(r.groups) :
                CopiesIn(ErrCall(r, r.groups[i]), hb_calls') = 1

C13_EveryBatchGroupNotified == [][C13_ErrStepAll]_vars

\* C13: an RPC that ends in a failure or at its deadline notifies exactly
\* once every group of its batch that is still registered and no other
\* group; the manager stays as it was, and the next tick sends a batch to
\* every peer that has a group
C13_ErrStep ==
    \A r \in inflight, o \in {"failure", "timeout"} :
        HeartbeatDone(r, o) =>
            /\ \A g \in GroupIds :
                  CopiesIn(ErrCall(r, g), hb_calls') =
                     (IF Registered(g) /\ Count(r.groups, g) = 1
                      THEN 1 ELSE 0)
            /\ hb_state' = hb_state
            /\ bghbeats' = bghbeats

C13_NextTickStep ==
    hb_tick' = hb_tick + 1 =>
        \A p \in Peers :
            (\E g \in GroupIds : Registered(g) /\ p \in PeersOf(g))
                => \E r \in hb_sent' : r.tick = hb_tick' /\ r.target = p

C13_FailureNotifiesRegisteredGroups ==
    /\ [][C13_ErrStep]_vars
    /\ [][C13_NextTickStep]_vars
    /\ [](bghbeats > 0 => hb_tick > 0)

\* the batch of tick 1 to peer 1 failed, both groups were told once, and
\* tick 2 sent peer 1 a batch again
C13_Witness ==
    LET r == [tick |-> 1, target |-> 1, groups |-> <<1, 2>>]
    IN  /\ r \in hb_sent
        /\ CopiesIn(ErrCall(r, 1), hb_calls) = 1
        /\ CopiesIn(ErrCall(r, 2), hb_calls) = 1
        /\ \E r2 \in hb_sent : r2.tick = 2 /\ r2.target = 1

\* C14: the set holds a group id at most once, in increasing order of the
\* id; registering an id that is present changes nothing, registering an
\* absent one adds it, and deregistering an id leaves it absent
C14_Ordered ==
    \A i, j \in 1..Len(consensus_groups) :
        i < j => consensus_groups[i].group < consensus_groups[j].group

C14_Step ==
    /\ \A g \in GroupIds, h \in Handles :
          RegisterGroup(g, h) =>
              /\ Registered(g) => consensus_groups' = consensus_groups
              /\ RegisteredIn(consensus_groups', g)
              /\ \A k \in GroupIds \ {g} :
                    RegisteredIn(consensus_groups', k) <=> Registered(k)
    /\ \A g \in GroupIds :
          DeregisterGroup(g) =>
              /\ ~RegisteredIn(consensus_groups', g)
              /\ \A k \in GroupIds \ {g} :
                    RegisteredIn(consensus_groups', k) <=> Registered(k)

C14_GroupSetUniqueAndOrdered ==
    /\ []C14_Ordered
    /\ [][C14_Step]_vars

\* both group ids are in the set, each with a different object
C14_Witness ==
    consensus_groups = <<[group |-> 1, handle |-> 2], [group |-> 2, handle |-> 1]>>

\* C15: the end of every tick arms the timer, stop() cancels it, no tick
\* is dispatched once stop() was called, and while the manager runs each
\* tick is followed by the next
C15_TimerStep ==
    /\ bghbeats' < bghbeats => heartbeat_timer'
    /\ (hb_state = "running" /\ hb_state' = "stopping") => ~heartbeat_timer'
    /\ hb_state \in {"stopping", "stopped"}
          => hb_tick' = hb_tick /\ hb_sent' = hb_sent /\ bghbeats' <= bghbeats

C15_TicksKeepOccurring ==
    /\ [][C15_TimerStep]_vars
    /\ \A n \in 0..(MaxTicks - 1) :
          (hb_state = "running" /\ hb_tick = n)
             ~> (hb_tick > n \/ hb_state # "running")

\* the first tick found no group and sent nothing, the second tick came
\* all the same, and the manager was then stopped
C15_Witness ==
    /\ hb_tick = 2
    /\ \A r \in hb_sent : r.tick # 1
    /\ hb_state = "stopped"

\* C20: no group is notified of a reply or of an error unless it is
\* registered when the answer is processed, and every group of the batch
\* that is registered then is notified once
C20_ReplyStep ==
    /\ \A e \in BagToSet(hb_calls') :
          CopiesIn(e, hb_calls') > CopiesIn(e, hb_calls) => Registered(e.group)
    /\ \A r \in inflight, o \in {"reply", "failure", "timeout"} :
          HeartbeatDone(r, o) =>
              \A i \in 1..Len(r.groups) :
                  Registered(r.groups[i]) =>
                      CopiesIn(IF o = "reply" THEN OkCall(r, r.groups[i])
                               ELSE ErrCall(r, r.groups[i]), hb_calls') = 1

C20_DeregisteredGroupIsSkipped == [][C20_ReplyStep]_vars

\* a batch for groups 1 and 2 was answered after group 1 had been
\* deregistered: group 2 got its reply and group 1 got nothing
C20_Witness ==
    \E r \in hb_sent \ inflight :
        /\ r.groups = <<1, 2>>
        /\ CopiesIn(OkCall(r, 1), hb_calls) = 0
        /\ CopiesIn(ErrCall(r, 1), hb_calls) = 0
        /\ CopiesIn(OkCall(r, 2), hb_calls) = 1

\* C21: the payload length the server asks for after the header of an
\* admitted frame is size minus the fixed header minus the client id, it
\* is not negative, and with the header and the client id it adds up to
\* the size field
C21_PayloadLengthIsRest ==
    \A c \in Conns :
        pc[c] = "read_payload" =>
            LET want == Remaining(cur[c].size, cur[c].cid)
                head == RawHeaderSize + ClientIdBytes(cur[c].cid)
            IN  /\ want = cur[c].size - head
                /\ want >= 0
                /\ head + want = cur[c].size

====
